---- MODULE Spec2Model ----
(***************************************************************************)
(* A model of src/main.py, class passwordGenerator: generatePassword,      *)
(* generateMultiple, calculateEntropy and assessStrength.                  *)
(*                                                                         *)
(* A Python str is a sequence of characters, a character is a one-letter   *)
(* TLA+ string (the grave accent, which a TLA+ string cannot hold, is      *)
(* written "backtick"), a list of str is a sequence of such sequences.     *)
(* Entropy is kept in millionths of a bit (integers stand for the floats). *)
(***************************************************************************)
EXTENDS Integers, Sequences, FiniteSets, Bags, TLC

(***************************************************************************)
(* Bounds of the model                                                     *)
(***************************************************************************)
\* the longest valid password length that is explored (the code allows 128)
MaxLen == 5
\* the largest count handed to generateMultiple
MaxCount == 2
\* assessStrength inputs: a free prefix of at most MaxKernel characters ...
MaxKernel == 3
\* ... followed by at most MaxPad repetitions of one character
MaxPad == 25

(***************************************************************************)
(* Program constants                                                       *)
(***************************************************************************)
\* src/main.py:36   length < 4
MinLength == 4
\* src/main.py:36   length > 128
MaxLength == 128

\* string.ascii_uppercase, string.ascii_lowercase, string.digits
ascii_uppercase ==
    << "A", "B", "C", "D", "E", "F", "G", "H", "I", "J", "K", "L", "M",
       "N", "O", "P", "Q", "R", "S", "T", "U", "V", "W", "X", "Y", "Z" >>
ascii_lowercase ==
    << "a", "b", "c", "d", "e", "f", "g", "h", "i", "j", "k", "l", "m",
       "n", "o", "p", "q", "r", "s", "t", "u", "v", "w", "x", "y", "z" >>
digits ==
    << "0", "1", "2", "3", "4", "5", "6", "7", "8", "9" >>
\* the literal of line 16
symbolsLiteral ==
    << "!", "@", "#", "$", "%", "^", "&", "*", "(", ")", "_", "+", "-",
       "=", "[", "]", "{", "}", "|", ";", ":", ",", ".", "<", ">", "?" >>
\* the literal of line 47
ambiguous ==
    << "0", "O", "1", "l", "I", "|", "backtick" >>

\* __init__: the dictionary self.char_sets
InitCharSets ==
    [key \in {"uppercase", "lowercase", "numbers", "symbols"} |->
        CASE key = "uppercase" -> ascii_uppercase
          [] key = "lowercase" -> ascii_lowercase
          [] key = "numbers"   -> digits
          [] key = "symbols"   -> symbolsLiteral]

(***************************************************************************)
(* Helpers on sequences                                                    *)
(***************************************************************************)
Range(s) == { s[x] : x \in DOMAIN s }

Min(S) == CHOOSE x \in S : \A y \in S : x <= y
Max(S) == CHOOSE x \in S : \A y \in S : x >= y

\* c in text, for a single character c
In(c, text) == \E x \in DOMAIN text : text[x] = c

\* ''.join(parts): the concatenation of the strings of a list
RECURSIVE join(_)
join(parts) ==
    IF parts = << >> THEN << >> ELSE Head(parts) \o join(Tail(parts))

\* the characters of a string as a bag
RECURSIVE BagOf(_)
BagOf(text) ==
    IF text = << >> THEN EmptyBag
    ELSE SetToBag({Head(text)}) (+) BagOf(Tail(text))

(***************************************************************************)
(* The random source (module secrets).  Each value drawn is a free choice  *)
(* between the lowest and the highest value the call can return; the       *)
(* choices are written on a tape, and once TapeLen choices were made (the  *)
(* draws of one call with the shortest length: MinLength characters and    *)
(* MinLength - 1 swaps) the source repeats the tape.                       *)
(***************************************************************************)
TapeLen == 2 * MinLength - 1

\* the source before its first draw
FreshRng == [tape |-> << >>, pos |-> 1]

\* the sources r can turn out to be when m more values are drawn from it
Extend(r, m) ==
    LET room  == TapeLen - Len(r.tape)
        fresh == IF m < room THEN m ELSE room
    IN  { [r EXCEPT !.tape = r.tape \o bits] : bits \in [1 .. fresh -> BOOLEAN] }

\* secrets.randbelow(n): the values it can return
randbelow(n) == 0 .. (n - 1)

\* the value the stream r selects among the outcomes S
RngPick(S, r) == IF r.tape[r.pos] THEN Max(S) ELSE Min(S)

RngAdvance(r) == [r EXCEPT !.pos = (r.pos % TapeLen) + 1]

\* secrets.choice(text): text[randbelow(len(text))], a string of one character
choice(text, r) == << text[RngPick(randbelow(Len(text)), r) + 1] >>

(***************************************************************************)
(* State                                                                   *)
(***************************************************************************)
VARIABLES
    char_sets,        \* self.char_sets
    rng,              \* the random source: its tape and the position on it
    draws,            \* values drawn from the random source by the running operation
    pc,               \* generatePassword: where the call stands
    args,             \* generatePassword: its arguments
    charPool,         \* generatePassword: the pool, a string
    requiredChars,    \* generatePassword: a list of one-character strings
    passwordChars,    \* generatePassword: a list of one-character strings
    remainingLength,  \* generatePassword: length - len(requiredChars)
    k,                \* generatePassword: iterations of the fill loop done
    i,                \* generatePassword: the index of the shuffle loop
    result,           \* generatePassword: the string returned
    error,            \* the message of the ValueError raised, or "none"
    mpc,              \* generateMultiple: where the call stands
    count,            \* generateMultiple: its argument count
    kwargs,           \* generateMultiple: the arguments passed on
    n,                \* generateMultiple: iterations of the comprehension done
    passwords,        \* generateMultiple: the list built, then returned
    spc,              \* calculateEntropy, assessStrength: where the call stands
    password,         \* calculateEntropy, assessStrength: the argument
    entropy,          \* calculateEntropy: the value returned, in millionths of a bit
    report            \* assessStrength: the dictionary returned

genVars == << pc, args, charPool, requiredChars, passwordChars,
              remainingLength, k, i, result >>
multiVars == << mpc, count, kwargs, n, passwords >>
strengthVars == << spc, password, entropy, report >>
vars == << char_sets, rng, draws, error, genVars, multiVars, strengthVars >>

NoArgs ==
    [length |-> 0, useUppercase |-> FALSE, useLowercase |-> FALSE,
     useNumbers |-> FALSE, useSymbols |-> FALSE, excludeAmbiguous |-> FALSE]

NoReport ==
    [strength |-> "none", score |-> 0, entropy |-> 0, length |-> 0,
     character_types |-> 0, has_uppercase |-> FALSE, has_lowercase |-> FALSE,
     has_numbers |-> FALSE, has_symbols |-> FALSE]

\* no call of generatePassword is running: it has no locals
GenIdle ==
    /\ pc = "idle"
    /\ args = NoArgs
    /\ charPool = << >>
    /\ requiredChars = << >>
    /\ passwordChars = << >>
    /\ remainingLength = 0
    /\ k = 0
    /\ i = 0
    /\ result = << >>

MultiIdle ==
    /\ mpc = "idle"
    /\ count = 0
    /\ kwargs = NoArgs
    /\ n = 0
    /\ passwords = << >>

StrengthIdle ==
    /\ spc = "idle"
    /\ password = << >>
    /\ entropy = 0
    /\ report = NoReport

\* no operation is running
Idle == pc = "idle" /\ mpc = "idle" /\ spc = "idle"

\* the state after passwordGenerator()
Init ==
    /\ char_sets = InitCharSets
    /\ rng = FreshRng
    /\ draws = 0
    /\ error = "none"
    /\ GenIdle
    /\ MultiIdle
    /\ StrengthIdle

(***************************************************************************)
(* generatePassword                                                        *)
(***************************************************************************)
Flags == [useUppercase : BOOLEAN, useLowercase : BOOLEAN,
          useNumbers : BOOLEAN, useSymbols : BOOLEAN, excludeAmbiguous : BOOLEAN]

\* the lengths a caller passes: the valid ones up to MaxLen, and invalid ones
Lengths == {0, MinLength - 1, MaxLength + 1} \cup (MinLength .. MaxLen)

\* the lengths of a batch: the two shortest valid ones, and invalid ones
BatchLengths == {MinLength - 1, MinLength, MinLength + 1, MaxLength + 1}

ConfigsOf(lengths) ==
    { [length |-> len, useUppercase |-> f.useUppercase,
       useLowercase |-> f.useLowercase, useNumbers |-> f.useNumbers,
       useSymbols |-> f.useSymbols, excludeAmbiguous |-> f.excludeAmbiguous] :
      len \in lengths, f \in Flags }

Configs == ConfigsOf(Lengths)

BatchConfigs == ConfigsOf(BatchLengths)

KeySet == {"uppercase", "lowercase", "numbers", "symbols"}

\* the classes a call selects
Selected(a) ==
    { key \in KeySet :
        \/ key = "uppercase" /\ a.useUppercase
        \/ key = "lowercase" /\ a.useLowercase
        \/ key = "numbers" /\ a.useNumbers
        \/ key = "symbols" /\ a.useSymbols }

\* a length check that forgets the lower limit
LengthInvalidNoLower(length) == length > MaxLength

\* line 36
LengthInvalid(length) == length < MinLength \/ length > MaxLength

\* a filter whose list of ambiguous characters lacks the digit zero
filterAmbiguousKeepsZero(text) ==
    SelectSeq(text, LAMBDA c : ~In(c, << "O", "1", "l", "I", "|", "backtick" >>))

\* line 49: the characters of text that are not in ambiguous, in their order
filterAmbiguous(text) == SelectSeq(text, LAMBDA c : ~In(c, ambiguous))

\* lines 43-49: the copy of self.char_sets, filtered when excludeAmbiguous
CopyCharSets(sets, excludeAmbiguous) ==
    IF excludeAmbiguous
    THEN [key \in DOMAIN sets |-> filterAmbiguous(sets[key])]
    ELSE sets

\* a block that extends the pool and forgets the required character
ClassBlockPoolOnly(st, use, text) ==
    IF use
    THEN [charPool      |-> st.charPool \o text,
          requiredChars |-> st.requiredChars,
          rng           |-> st.rng,
          draws         |-> st.draws]
    ELSE st

\* lines 51-53 (55-57, 59-61, 63-65): one  if useX:  block, on the locals
\* st = [charPool, requiredChars, rng, draws]
ClassBlock(st, use, text) ==
    IF use
    THEN [charPool      |-> st.charPool \o text,
          requiredChars |-> Append(st.requiredChars, choice(text, st.rng)),
          rng           |-> RngAdvance(st.rng),
          draws         |-> st.draws + 1]
    ELSE st

\* lines 19-37: the call binds its arguments and checks the length
Enter(a) ==
    /\ args' = a
    /\ IF LengthInvalid(a.length)
       THEN /\ pc' = "raised"
            /\ error' = "Password length must be between 4 and 128 characters"
       ELSE /\ pc' = "assemble"
            /\ error' = "none"
    /\ UNCHANGED << charPool, requiredChars, passwordChars, remainingLength,
                    k, i, result >>

\* a caller calls generatePassword(**a)
generatePassword(a) ==
    /\ Idle
    /\ Enter(a)
    /\ rng' = FreshRng
    /\ draws' = 0
    /\ UNCHANGED << char_sets, multiVars, strengthVars >>

\* lines 39-65
AssemblePool ==
    /\ pc = "assemble"
    /\ \E r \in Extend(rng, Cardinality(Selected(args))) :
       LET cs == CopyCharSets(char_sets, args.excludeAmbiguous)
           s0 == [charPool |-> << >>, requiredChars |-> << >>,
                  rng |-> r, draws |-> draws]
           s1 == ClassBlock(s0, args.useUppercase, cs["uppercase"])
           s2 == ClassBlock(s1, args.useLowercase, cs["lowercase"])
           s3 == ClassBlock(s2, args.useNumbers, cs["numbers"])
           s4 == ClassBlock(s3, args.useSymbols, cs["symbols"])
       IN  /\ charPool' = s4.charPool
           /\ requiredChars' = s4.requiredChars
           /\ rng' = s4.rng
           /\ draws' = s4.draws
    /\ pc' = "check_pool"
    /\ UNCHANGED << char_sets, error, args, passwordChars, remainingLength,
                    k, i, result, multiVars, strengthVars >>

\* a fill count that forgets the required characters
RemainingLengthWhole(length, required) == length

\* line 74
RemainingLength(length, required) == length - Len(required)

\* lines 67-74
CheckPool ==
    /\ pc = "check_pool"
    /\ IF charPool = << >>
       THEN /\ pc' = "raised"
            /\ error' = "At least one character type must be selected"
            /\ UNCHANGED << passwordChars, remainingLength >>
       ELSE /\ pc' = "fill"
            /\ passwordChars' = requiredChars
            /\ remainingLength' = RemainingLength(args.length, requiredChars)
            /\ UNCHANGED error
    /\ k' = 0
    /\ UNCHANGED << char_sets, rng, draws, args, charPool,
                    requiredChars, i, result, multiVars, strengthVars >>

\* lines 75-76: one iteration of  for _ in range(remainingLength)
FillStep ==
    /\ pc = "fill"
    /\ k < remainingLength
    /\ \E r \in Extend(rng, 1) :
           /\ passwordChars' = Append(passwordChars, choice(charPool, r))
           /\ rng' = RngAdvance(r)
    /\ draws' = draws + 1
    /\ k' = k + 1
    /\ UNCHANGED << char_sets, error, pc, args, charPool,
                    requiredChars, remainingLength, i, result, multiVars,
                    strengthVars >>

\* line 79: the fill loop is over, range(len(passwordChars) - 1, 0, -1) starts
StartShuffle ==
    /\ pc = "fill"
    /\ ~(k < remainingLength)
    /\ pc' = "shuffle"
    /\ i' = Len(passwordChars) - 1
    /\ UNCHANGED << char_sets, rng, draws, error, args, charPool,
                    requiredChars, passwordChars, remainingLength, k, result,
                    multiVars, strengthVars >>

\* a shuffle that never leaves a position in place: randbelow(i)
ShuffleRangeExclusive(idx) == randbelow(idx)

\* line 80: the values j can take at index i
ShuffleRange(idx) == randbelow(idx + 1)

\* line 81, on positions counted from 0
swap(chars, a, b) ==
    [chars EXCEPT ![a + 1] = chars[b + 1], ![b + 1] = chars[a + 1]]

\* lines 79-81: one iteration of the shuffle loop
ShuffleStep ==
    /\ pc = "shuffle"
    /\ i >= 1
    /\ \E r \in Extend(rng, 1) :
           LET j == RngPick(ShuffleRange(i), r)
           IN  /\ passwordChars' = swap(passwordChars, i, j)
               /\ rng' = RngAdvance(r)
    /\ draws' = draws + 1
    /\ i' = i - 1
    /\ UNCHANGED << char_sets, error, pc, args, charPool,
                    requiredChars, remainingLength, k, result, multiVars,
                    strengthVars >>

\* line 83
ReturnPassword ==
    /\ pc = "shuffle"
    /\ i < 1
    /\ result' = join(passwordChars)
    /\ pc' = "returned"
    /\ UNCHANGED << char_sets, rng, draws, error, args, charPool,
                    requiredChars, passwordChars, remainingLength, k, i,
                    multiVars, strengthVars >>

\* the locals of generatePassword go away
GenClear ==
    /\ pc' = "idle"
    /\ args' = NoArgs
    /\ charPool' = << >>
    /\ requiredChars' = << >>
    /\ passwordChars' = << >>
    /\ remainingLength' = 0
    /\ k' = 0
    /\ i' = 0
    /\ result' = << >>

\* the caller of generatePassword has its value, or its ValueError
Return ==
    /\ mpc = "idle" /\ spc = "idle"
    /\ pc \in {"returned", "raised"}
    /\ GenClear
    /\ rng' = FreshRng
    /\ draws' = 0
    /\ error' = "none"
    /\ UNCHANGED << char_sets, multiVars, strengthVars >>

Next ==
    \/ Idle /\ \E a \in Configs : generatePassword(a)
    \/ AssemblePool
    \/ CheckPool
    \/ FillStep
    \/ StartShuffle
    \/ ShuffleStep
    \/ ReturnPassword
    \/ Return

Spec == Init /\ [][Next]_vars

(***************************************************************************)
(* generateMultiple (lines 145-146)                                        *)
(***************************************************************************)
Counts == (0 - 1) .. MaxCount

\* a comprehension over range(count) that stops one iteration early
MoreToGenerateShort(done, cnt) == done < cnt - 1

\* for _ in range(count): an iteration is left after done iterations
MoreToGenerate(done, cnt) == done < cnt

\* a caller calls generateMultiple(count=c, **kw)
generateMultiple(c, kw) ==
    /\ Idle
    /\ mpc' = "loop"
    /\ count' = c
    /\ kwargs' = kw
    /\ n' = 0
    /\ passwords' = << >>
    /\ rng' = FreshRng
    /\ draws' = 0
    /\ error' = "none"
    /\ UNCHANGED << char_sets, genVars, strengthVars >>

\* the comprehension calls self.generatePassword(**kwargs)
MultipleCall ==
    /\ mpc = "loop"
    /\ pc = "idle"
    /\ MoreToGenerate(n, count)
    /\ Enter(kwargs)
    /\ mpc' = "call"
    /\ UNCHANGED << char_sets, rng, draws, count, kwargs, n, passwords,
                    strengthVars >>

\* the call returned: its value is the next element of the list
MultipleAppend ==
    /\ mpc = "call"
    /\ pc = "returned"
    /\ passwords' = Append(passwords, result)
    /\ n' = n + 1
    /\ mpc' = "loop"
    /\ GenClear
    /\ UNCHANGED << char_sets, rng, draws, error, count, kwargs, strengthVars >>

\* the call raised: the ValueError leaves generateMultiple, the list is lost
MultipleRaise ==
    /\ mpc = "call"
    /\ pc = "raised"
    /\ passwords' = << >>
    /\ mpc' = "raised"
    /\ GenClear
    /\ UNCHANGED << char_sets, rng, draws, error, count, kwargs, n, strengthVars >>

\* range(count) is exhausted: the list is returned
MultipleReturn ==
    /\ mpc = "loop"
    /\ pc = "idle"
    /\ ~MoreToGenerate(n, count)
    /\ mpc' = "returned"
    /\ UNCHANGED << char_sets, rng, draws, error, genVars, count, kwargs, n,
                    passwords, strengthVars >>

\* the caller of generateMultiple has its list, or its ValueError
MultipleDone ==
    /\ mpc \in {"returned", "raised"}
    /\ mpc' = "idle"
    /\ count' = 0
    /\ kwargs' = NoArgs
    /\ n' = 0
    /\ passwords' = << >>
    /\ rng' = FreshRng
    /\ draws' = 0
    /\ error' = "none"
    /\ UNCHANGED << char_sets, genVars, strengthVars >>

NextBatch ==
    \/ Idle /\ \E c \in Counts, kw \in BatchConfigs : generateMultiple(c, kw)
    \/ MultipleCall
    \/ AssemblePool
    \/ CheckPool
    \/ FillStep
    \/ StartShuffle
    \/ ShuffleStep
    \/ ReturnPassword
    \/ MultipleAppend
    \/ MultipleRaise
    \/ MultipleReturn
    \/ MultipleDone

SpecBatch == Init /\ [][NextBatch]_vars

(***************************************************************************)
(* calculateEntropy and assessStrength                                     *)
(***************************************************************************)
\* one bit, in the unit of entropy
Micro == 1000 * 1000

\* the characters of the passwords handed to the analyzer: an uppercase
\* letter, a lowercase letter, a digit, a symbol (an ambiguous one) and a
\* character of no class
AnalysisChars == {"Q", "a", "7", "|", " "}

\* m times the character c
Pad(c, m) == [x \in 1 .. m |-> c]

TestPasswords ==
    { kernel \o Pad(c, m) :
        kernel \in UNION { [1 .. len -> AnalysisChars] : len \in 0 .. MaxKernel },
        c \in AnalysisChars,
        m \in 0 .. MaxPad }

\* c.isupper(), c.islower(), c.isdigit() for a character of the classes, of
\* ambiguous or a blank
isupper(c) == In(c, ascii_uppercase)
islower(c) == In(c, ascii_lowercase)
isdigit(c) == In(c, digits)

\* math.log2(x) in millionths, rounded down, for the sizes a character space
\* can have (with a symbol class of 26 or of 32 characters)
Log2Micro(x) ==
    CASE x = 10 -> 3321928
      [] x = 26 -> 4700439
      [] x = 32 -> 5000000
      [] x = 36 -> 5169925
      [] x = 42 -> 5392317
      [] x = 52 -> 5700439
      [] x = 58 -> 5857980
      [] x = 62 -> 5954196
      [] x = 68 -> 6087462
      [] x = 78 -> 6285402
      [] x = 84 -> 6392317
      [] x = 88 -> 6459431
      [] x = 94 -> 6554588

\* a symbol class counted as 32 characters
SymbolSpace32(sets) == 32

\* line 96: len(self.char_sets['symbols'])
SymbolSpace(sets) == Len(sets["symbols"])

\* lines 87-96
charSpaceOf(text, sets) ==
      (IF \E x \in DOMAIN text : isupper(text[x]) THEN 26 ELSE 0)
    + (IF \E x \in DOMAIN text : islower(text[x]) THEN 26 ELSE 0)
    + (IF \E x \in DOMAIN text : isdigit(text[x]) THEN 10 ELSE 0)
    + (IF \E x \in DOMAIN text : In(text[x], sets["symbols"])
       THEN SymbolSpace(sets) ELSE 0)

\* lines 85-102: the value of calculateEntropy(text), in millionths of a bit
EntropyOf(text, sets) ==
    LET charSpace == charSpaceOf(text, sets)
    IN  IF charSpace = 0 THEN 0 ELSE Len(text) * Log2Micro(charSpace)

\* thresholds whose first one is 85
StrengthOf85(e) ==
    IF e >= 85 * Micro THEN [strength |-> "Very Strong", score |-> 100]
    ELSE IF e >= 60 * Micro THEN [strength |-> "Strong", score |-> 80]
    ELSE IF e >= 40 * Micro THEN [strength |-> "Moderate", score |-> 60]
    ELSE IF e >= 25 * Micro THEN [strength |-> "Weak", score |-> 40]
    ELSE [strength |-> "Very Weak", score |-> 20]

\* thresholds whose last one is 20
StrengthOf20(e) ==
    IF e >= 80 * Micro THEN [strength |-> "Very Strong", score |-> 100]
    ELSE IF e >= 60 * Micro THEN [strength |-> "Strong", score |-> 80]
    ELSE IF e >= 40 * Micro THEN [strength |-> "Moderate", score |-> 60]
    ELSE IF e >= 20 * Micro THEN [strength |-> "Weak", score |-> 40]
    ELSE [strength |-> "Very Weak", score |-> 20]

\* lines 109-123
StrengthOf(e) ==
    IF e >= 80 * Micro THEN [strength |-> "Very Strong", score |-> 100]
    ELSE IF e >= 60 * Micro THEN [strength |-> "Strong", score |-> 80]
    ELSE IF e >= 40 * Micro THEN [strength |-> "Moderate", score |-> 60]
    ELSE IF e >= 25 * Micro THEN [strength |-> "Weak", score |-> 40]
    ELSE [strength |-> "Very Weak", score |-> 20]

\* round(e, 2), in hundredths of a bit
round2(e) == (e + 5000) \div 10000

\* lines 104-143: the dictionary assessStrength(text) returns
ReportOf(text, sets) ==
    LET e == EntropyOf(text, sets)
        verdict == StrengthOf(e)
        hasUpper == \E x \in DOMAIN text : isupper(text[x])
        hasLower == \E x \in DOMAIN text : islower(text[x])
        hasDigits == \E x \in DOMAIN text : isdigit(text[x])
        hasSymbols == \E x \in DOMAIN text : In(text[x], sets["symbols"])
        one(b) == IF b THEN 1 ELSE 0
    IN  [strength        |-> verdict.strength,
         score           |-> verdict.score,
         entropy         |-> round2(e),
         length          |-> Len(text),
         character_types |-> one(hasUpper) + one(hasLower) + one(hasDigits)
                                 + one(hasSymbols),
         has_uppercase   |-> hasUpper,
         has_lowercase   |-> hasLower,
         has_numbers     |-> hasDigits,
         has_symbols     |-> hasSymbols]

\* a caller calls calculateEntropy(text)
calculateEntropy(text) ==
    /\ Idle
    /\ password' = text
    /\ entropy' = EntropyOf(text, char_sets)
    /\ spc' = "entropy_returned"
    /\ UNCHANGED << char_sets, rng, draws, error, genVars, multiVars, report >>

\* a caller calls assessStrength(text); line 105 calls calculateEntropy
assessStrength(text) ==
    /\ Idle
    /\ password' = text
    /\ entropy' = EntropyOf(text, char_sets)
    /\ report' = ReportOf(text, char_sets)
    /\ spc' = "report_returned"
    /\ UNCHANGED << char_sets, rng, draws, error, genVars, multiVars >>

\* the caller has the value
StrengthDone ==
    /\ spc \in {"entropy_returned", "report_returned"}
    /\ spc' = "idle"
    /\ password' = << >>
    /\ entropy' = 0
    /\ report' = NoReport
    /\ UNCHANGED << char_sets, rng, draws, error, genVars, multiVars >>

NextStrength ==
    \/ Idle /\ \E text \in TestPasswords : calculateEntropy(text)
    \/ Idle /\ \E text \in TestPasswords : assessStrength(text)
    \/ StrengthDone

SpecStrength == Init /\ [][NextStrength]_vars

(***************************************************************************)
(* What the claims speak of                                                *)
(***************************************************************************)
\* a valid configuration: length in 4..128 and a class selected
ValidConfig(a) ==
    /\ a.length \in MinLength .. MaxLength
    /\ Selected(a) # {}

\* the positions of text that hold a character of the class key
ClassPositions(text, key) ==
    { x \in DOMAIN text : In(text[x], InitCharSets[key]) }

NoAmbiguous(text) == \A x \in DOMAIN text : ~In(text[x], ambiguous)

Factorial(m) == IF m <= 1 THEN 1 ELSE
                IF m = 2 THEN 2 ELSE
                IF m = 3 THEN 6 ELSE
                IF m = 4 THEN 24 ELSE
                IF m = 5 THEN 120 ELSE
                IF m = 6 THEN 720 ELSE 5040

\* lines 79-81 over every outcome of the draws: the orders the loop can leave
\* the sequences of S in, from index idx down to 1
RECURSIVE ShuffleOutcomes(_, _)
ShuffleOutcomes(S, idx) ==
    IF idx < 1 THEN S
    ELSE ShuffleOutcomes({ swap(seq, idx, j) : seq \in S, j \in ShuffleRange(idx) },
                         idx - 1)

Positions(m) == [x \in 1 .. m |-> x]

(***************************************************************************)
(* C1: for every valid configuration generatePassword does not fail, and   *)
(* the password it returns has exactly the requested length.               *)
(***************************************************************************)
C1_LengthExact ==
    (pc # "idle" /\ ValidConfig(args)) =>
        /\ pc # "raised"
        /\ error = "none"
        /\ pc = "returned" => Len(result) = args.length

\* a password was returned that holds fill characters
C1_Witness ==
    /\ pc = "returned"
    /\ ValidConfig(args)
    /\ args.length > MinLength
    /\ Len(requiredChars) < args.length
    /\ Len(result) = args.length

(***************************************************************************)
(* C2: the password returned for a valid configuration holds a character   *)
(* of every selected class; with length 4 and the four classes selected it *)
(* holds exactly one character of each class.                              *)
(***************************************************************************)
C2_EveryClassPresent ==
    (pc = "returned" /\ ValidConfig(args)) =>
        /\ \A key \in Selected(args) : ClassPositions(result, key) # {}
        /\ (args.length = 4 /\ Selected(args) = KeySet) =>
               \A key \in KeySet : Cardinality(ClassPositions(result, key)) = 1

\* length 4, the four classes: one character of each
C2_Witness ==
    /\ pc = "returned"
    /\ args.length = 4
    /\ Selected(args) = KeySet
    /\ \A key \in KeySet : Cardinality(ClassPositions(result, key)) = 1

(***************************************************************************)
(* C3: with excludeAmbiguous no ambiguous character is in the pool (the     *)
(* filtered strings of the selected classes), among the required           *)
(* characters, among the characters of the password under construction,    *)
(* or in the password returned.                                            *)
(***************************************************************************)
C3_NoAmbiguous ==
    args.excludeAmbiguous =>
        /\ NoAmbiguous(charPool)
        /\ NoAmbiguous(join(requiredChars))
        /\ NoAmbiguous(join(passwordChars))
        /\ NoAmbiguous(result)

\* a password with a required digit and fill characters was returned
C3_Witness ==
    /\ pc = "returned"
    /\ args.excludeAmbiguous
    /\ args.useNumbers
    /\ Len(requiredChars) < args.length
    /\ NoAmbiguous(result)
    /\ ClassPositions(result, "numbers") # {}

(***************************************************************************)
(* C4: a call with a length outside 4..128 raises at once; a call with no  *)
(* class selected raises; in both cases nothing was drawn from the random  *)
(* source, no password exists, the length is as passed and the pool is     *)
(* empty.                                                                  *)
(***************************************************************************)
C4_InvalidFails ==
    (pc # "idle" /\ ~ValidConfig(args)) =>
        /\ pc \in {"assemble", "check_pool", "raised"}
        /\ draws = 0
        /\ result = << >>
        /\ passwordChars = << >>
        /\ requiredChars = << >>
        /\ charPool = << >>
        /\ args.length \notin MinLength .. MaxLength =>
               /\ pc = "raised"
               /\ error = "Password length must be between 4 and 128 characters"
        /\ (pc = "raised" /\ args.length \in MinLength .. MaxLength) =>
               error = "At least one character type must be selected"

\* no class selected: the ValueError of line 68, nothing drawn
C4_Witness ==
    /\ pc = "raised"
    /\ args.length \in MinLength .. MaxLength
    /\ Selected(args) = {}
    /\ error = "At least one character type must be selected"
    /\ draws = 0

(***************************************************************************)
(* C10: the shuffle runs over the whole sequence, the index going from     *)
(* length-1 down to 1; each step swaps position i with a position j in     *)
(* 0..i; the characters and the length stay the same; the draws can        *)
(* produce every order of the positions.                                   *)
(***************************************************************************)
C10_ShuffleState ==
    /\ pc = "shuffle" =>
           /\ Len(passwordChars) = args.length
           /\ i \in 0 .. Len(passwordChars) - 1
           /\ draws = args.length + (Len(passwordChars) - 1 - i)
    /\ (pc = "shuffle" /\ i = Len(passwordChars) - 1) =>
           /\ SubSeq(passwordChars, 1, Len(requiredChars)) = requiredChars
           /\ Cardinality(ShuffleOutcomes({Positions(Len(passwordChars))},
                                          Len(passwordChars) - 1))
                  = Factorial(Len(passwordChars))

C10_ShuffleStep ==
    /\ (pc = "fill" /\ pc' = "shuffle") =>
           /\ i' = Len(passwordChars) - 1
           /\ passwordChars' = passwordChars
    /\ (pc = "shuffle" /\ pc' = "shuffle") =>
           /\ i >= 1
           /\ i' = i - 1
           /\ \E j \in 0 .. i : passwordChars' = swap(passwordChars, i, j)
           /\ BagOf(join(passwordChars')) = BagOf(join(passwordChars))
           /\ Len(passwordChars') = Len(passwordChars)
    /\ (pc = "shuffle" /\ pc' = "returned") =>
           /\ i = 0
           /\ result' = join(passwordChars)

\* C10: the shuffle loop goes from index length-1 down to 1, swaps position i
\* with a position in 0..i, keeps the characters, and can yield every order
C10_Shuffle == [](C10_ShuffleState) /\ [][C10_ShuffleStep]_vars

\* the only required character went from the front to the last position
C10_Witness ==
    /\ pc = "returned"
    /\ Len(requiredChars) = 1
    /\ Len(passwordChars) > MinLength
    /\ passwordChars[Len(passwordChars)] = requiredChars[1]
    /\ passwordChars[1] # requiredChars[1]

(***************************************************************************)
(* C5: generateMultiple called with count <= 0 raises an error and returns *)
(* no sequence.                                                            *)
(***************************************************************************)
C5_CountRejected ==
    (mpc # "idle" /\ count <= 0) => mpc # "returned"

(***************************************************************************)
(* C6: for count >= 1 and a valid configuration generateMultiple returns   *)
(* count passwords, each of the requested length, with a character of      *)
(* every selected class and, with excludeAmbiguous, no ambiguous           *)
(* character; every call starts without locals and builds its own pool and *)
(* required characters; with an invalid configuration the call raises and  *)
(* no list exists.                                                         *)
(***************************************************************************)
\* the length of the pool of a configuration, from the class strings
PoolLength(a) ==
    LET size(key) ==
            IF key \in Selected(a)
            THEN Len(CopyCharSets(InitCharSets, a.excludeAmbiguous)[key])
            ELSE 0
    IN  size("uppercase") + size("lowercase") + size("numbers") + size("symbols")

\* C6: count >= 1 and a valid configuration give count passwords, each built
\* by a call of its own and each with the length, the classes and no
\* ambiguous character; an invalid configuration gives no list
C6_Batch ==
    /\ (mpc = "returned" /\ count >= 1) =>
           /\ ValidConfig(kwargs)
           /\ Len(passwords) = count
           /\ draws = count * (2 * kwargs.length - 1)
           /\ \A x \in DOMAIN passwords :
                  /\ Len(passwords[x]) = kwargs.length
                  /\ \A key \in Selected(kwargs) :
                         ClassPositions(passwords[x], key) # {}
                  /\ kwargs.excludeAmbiguous => NoAmbiguous(passwords[x])
    /\ (mpc # "idle" /\ count >= 1 /\ ~ValidConfig(kwargs)) =>
           /\ mpc # "returned"
           /\ passwords = << >>
           /\ draws = 0
    /\ mpc = "raised" => (passwords = << >> /\ error # "none")
    /\ mpc = "loop" => (GenIdle /\ Len(passwords) = n)
    /\ (mpc = "call" /\ pc = "assemble") =>
           (charPool = << >> /\ requiredChars = << >> /\ passwordChars = << >>)
    /\ (mpc = "call" /\ pc \in {"check_pool", "fill", "shuffle", "returned"}) =>
           /\ Len(requiredChars) = Cardinality(Selected(kwargs))
           /\ Len(charPool) = PoolLength(kwargs)
           /\ args = kwargs

\* two passwords were returned, and they differ
C6_Witness ==
    /\ mpc = "returned"
    /\ count = 2
    /\ Len(passwords) = 2
    /\ passwords[1] # passwords[2]
    /\ kwargs.excludeAmbiguous
    /\ Cardinality(Selected(kwargs)) = 3

(***************************************************************************)
(* C7: the label and the score follow the entropy e that calculateEntropy  *)
(* returned: e >= 80 is Very Strong with 100, 60 <= e < 80 is Strong with  *)
(* 80, 40 <= e < 60 is Moderate with 60; a label stands for one range,     *)
(* and the score follows from the label.                                   *)
(***************************************************************************)
C7_UpperThresholds ==
    spc = "report_returned" =>
        /\ (entropy >= 80 * Micro)
               <=> (report.strength = "Very Strong")
        /\ (entropy >= 60 * Micro /\ entropy < 80 * Micro)
               <=> (report.strength = "Strong")
        /\ (entropy >= 40 * Micro /\ entropy < 60 * Micro)
               <=> (report.strength = "Moderate")
        /\ (report.strength = "Very Strong") <=> (report.score = 100)
        /\ (report.strength = "Strong") <=> (report.score = 80)
        /\ (report.strength = "Moderate") <=> (report.score = 60)

\* an entropy less than half a bit below 80: Strong, 80
C7_Witness ==
    /\ spc = "report_returned"
    /\ entropy < 80 * Micro
    /\ 2 * entropy >= 159 * Micro
    /\ report.strength = "Strong"
    /\ report.score = 80

(***************************************************************************)
(* C8, as claimed: 20 <= e < 40 is Weak with 40, e < 20 is Very Weak with  *)
(* 20.                                                                     *)
(***************************************************************************)
C8_WeakFrom20 ==
    spc = "report_returned" =>
        /\ (entropy >= 20 * Micro /\ entropy < 40 * Micro) =>
               (report.strength = "Weak" /\ report.score = 40)
        /\ entropy < 20 * Micro =>
               (report.strength = "Very Weak" /\ report.score = 20)

(***************************************************************************)
(* C8, amended: 25 <= e < 40 is Weak with 40, e < 25 (the empty password,  *)
(* of entropy 0, included) is Very Weak with 20.                           *)
(***************************************************************************)
C8_WeakFrom25 ==
    spc = "report_returned" =>
        /\ (entropy >= 25 * Micro /\ entropy < 40 * Micro) <=>
               (report.strength = "Weak")
        /\ (entropy < 25 * Micro) <=> (report.strength = "Very Weak")
        /\ (report.strength = "Weak") <=> (report.score = 40)
        /\ (report.strength = "Very Weak") <=> (report.score = 20)
        /\ password = << >> =>
               (entropy = 0 /\ report.strength = "Very Weak")

\* an entropy between 20 and 25 bits: Very Weak, 20
C8_Witness ==
    /\ spc = "report_returned"
    /\ entropy >= 20 * Micro
    /\ entropy < 25 * Micro
    /\ report.strength = "Very Weak"
    /\ report.score = 20

(***************************************************************************)
(* C9: calculateEntropy never fails and returns length * log2(size), or 0  *)
(* when size is 0, where size adds 26 for an uppercase letter, 26 for a    *)
(* lowercase letter, 10 for a digit and the size of the symbol class for a *)
(* symbol.                                                                 *)
(***************************************************************************)
\* the size of the character space of text when the symbol class counts for
\* symbolSize characters
SpaceWith(text, symbolSize) ==
    LET chars == Range(text)
        part(class, size) == IF chars \cap Range(class) # {} THEN size ELSE 0
    IN  part(ascii_uppercase, 26) + part(ascii_lowercase, 26)
          + part(digits, 10) + part(symbolsLiteral, symbolSize)

EntropyWith(text, symbolSize) ==
    IF SpaceWith(text, symbolSize) = 0 THEN 0
    ELSE Len(text) * Log2Micro(SpaceWith(text, symbolSize))

\* C9, as claimed: the symbol class counts for 32 characters
C9_SymbolClassOf32 ==
    spc = "entropy_returned" =>
        (error = "none" /\ entropy = EntropyWith(password, 32))

\* C9, amended: calculateEntropy never fails and returns length * log2(size),
\* the symbol class counting for its 26 characters; 4 * log2(26) for aaaa
C9_SymbolClassOf26 ==
    /\ Cardinality(Range(symbolsLiteral)) = 26
    /\ spc = "entropy_returned" =>
           /\ error = "none"
           /\ entropy = EntropyWith(password, 26)
           /\ SpaceWith(password, 26) = 0 => entropy = 0
    /\ (spc = "entropy_returned" /\ password = << "a", "a", "a", "a" >>) =>
           entropy = 4 * Log2Micro(26)

\* a password with a symbol: its space is a sum with 26, not with 32
C9_Witness ==
    /\ spc = "entropy_returned"
    /\ Range(password) \cap Range(symbolsLiteral) # {}
    /\ Range(password) \cap Range(digits) # {}
    /\ entropy = Len(password) * Log2Micro(36)
    /\ Len(password) > 4

====
